---------------------------- MODULE Spec2Model ----------------------------
(***************************************************************************)
(* A model of project.py: one run of main().  A URL is read, the video id  *)
(* is extracted, the client is built, the comment pages are fetched and    *)
(* normalised in a loop, and the records are written to a CSV file.        *)
(*                                                                         *)
(* Strings that the code takes apart (the URL, the video id, the file      *)
(* path) are sequences of one-character strings; every other text is a     *)
(* TLA+ string.  The API, the file system and the console are the          *)
(* environment: each fetch draws its response (or its failure) from small  *)
(* sets, and each file-system call either succeeds or raises.              *)
(***************************************************************************)
EXTENDS Integers, Sequences, FiniteSets, TLC

VARIABLES
    youtube_url,      \* main: the URL read from the console
    pc,               \* main's position: "extract", "build", "loop", "save", "done"
    video_id,         \* main: the extracted identifier
    youtube,          \* main: the client handle ("unbuilt" before line 165)
    requests,         \* the requests issued to the API, in order
    responses,        \* the responses the API returned, in order
    comments_data,    \* get_all_comments: the records collected so far
    next_page_token,  \* get_all_comments: the token of the next fetch
    fs_dirs,          \* file system: the directories that exist
    fs_files,         \* file system: path -> rows of the file
    fs0,              \* the file system as the run found it
    output,           \* the lines printed to the console
    failure,          \* where the run failed: "none", "extract", "fetch", "parse", "save"
    api_pages,        \* API: number of pages of the video's token chain, 0 = endless
    api_total         \* API: number of comment threads the video holds at most

vars == <<youtube_url, pc, video_id, youtube, requests, responses, comments_data,
          next_page_token, fs_dirs, fs_files, fs0, output, failure, api_pages,
          api_total>>

-----------------------------------------------------------------------------
(* Bounds *)

MaxSegs == 3        \* URL pieces per URL of the extraction specification
MaxPages == 3       \* pages fetched per run at most (also the longest token chain)
MaxComments == 3    \* comment threads a video holds at most

(* Program constants *)

MaxResults == 100

-----------------------------------------------------------------------------
(* Python values *)

None == "<None>"

Truthy(v) == v # None /\ v # ""

Digit(d) == <<"0", "1", "2", "3", "4", "5", "6", "7", "8", "9">>[d + 1]

RECURSIVE Str(_)
Str(n) == IF n < 10 THEN Digit(n) ELSE Str(n \div 10) \o Digit(n % 10)

(* Exceptions: a type and a message.  Bases is Python's class hierarchy,   *)
(* which decides the except clause that catches an exception.              *)

Exc(type, msg) == [type |-> type, msg |-> msg]

Bases(type) ==
    CASE type = "UnicodeEncodeError" -> <<"UnicodeEncodeError", "UnicodeError", "ValueError", "Exception">>
      [] type = "ValueError" -> <<"ValueError", "Exception">>
      [] type = "KeyError" -> <<"KeyError", "LookupError", "Exception">>
      [] type = "OSError" -> <<"OSError", "Exception">>
      [] type = "HttpError" -> <<"HttpError", "Error", "Exception">>

IsInstance(e, class) == \E i \in DOMAIN Bases(e.type) : Bases(e.type)[i] = class

-----------------------------------------------------------------------------
(* str: membership and split *)

MatchAt(s, sep, i) ==
    /\ i + Len(sep) - 1 <= Len(s)
    /\ \A j \in 1..Len(sep) : s[i + j - 1] = sep[j]

Contains(s, sep) == \E i \in 1..Len(s) : MatchAt(s, sep, i)

RECURSIVE SplitFrom(_, _, _, _)
SplitFrom(s, sep, i, cur) ==
    IF i > Len(s) THEN <<cur>>
    ELSE IF MatchAt(s, sep, i) THEN <<cur>> \o SplitFrom(s, sep, i + Len(sep), <<>>)
    ELSE SplitFrom(s, sep, i + 1, Append(cur, s[i]))

Split(s, sep) == SplitFrom(s, sep, 1, <<>>)

VEq == <<"v", "=">>
Amp == <<"&">>
YoutuBe == <<"y", "o", "u", "t", "u", ".", "b", "e", "/">>

OUTPUT_DIR == <<"o", "u", "t", "p", "u", "t", "s">>

-----------------------------------------------------------------------------
(* Helper functions of project.py *)

\* An extractor that takes a URL without a marker for the identifier.
extract_video_id_lenient(url) ==
    IF Contains(url, VEq)
    THEN [ok |-> TRUE, value |-> Split(Split(url, VEq)[2], Amp)[1]]
    ELSE IF Contains(url, YoutuBe)
    THEN [ok |-> TRUE, value |-> Split(url, YoutuBe)[2]]
    ELSE [ok |-> TRUE, value |-> url]

\* Python sequences are indexed from 0: s.split(x)[1] is the second piece.
extract_video_id(url) ==
    IF Contains(url, VEq)
    THEN [ok |-> TRUE, value |-> Split(Split(url, VEq)[2], Amp)[1]]
    ELSE IF Contains(url, YoutuBe)
    THEN [ok |-> TRUE, value |-> Split(url, YoutuBe)[2]]
    ELSE [ok |-> FALSE, exc |-> Exc("ValueError", "Invalid YouTube link")]

build_youtube_client == "client"

\* A fetch that forgets to pass the page token on.
fetch_comments_page_no_token(client, vid, page_token) ==
    [client |-> client, part |-> "snippet", videoId |-> vid,
     pageToken |-> None, maxResults |-> MaxResults]

fetch_comments_page(client, vid, page_token) ==
    [client |-> client, part |-> "snippet", videoId |-> vid,
     pageToken |-> page_token, maxResults |-> MaxResults]

CommentInfoFields ==
    {"textDisplay", "likeCount", "authorDisplayName", "authorChannelUrl",
     "authorChannelId", "publishedAt", "updatedAt"}

\* The first key of the item that parse_comment looks up and does not find.
MissingKey(item) ==
    IF "snippet" \notin DOMAIN item THEN "snippet"
    ELSE IF "topLevelComment" \notin DOMAIN item.snippet THEN "topLevelComment"
    ELSE IF "snippet" \notin DOMAIN item.snippet.topLevelComment THEN "snippet"
    ELSE LET ci == item.snippet.topLevelComment.snippet IN
         IF "textDisplay" \notin DOMAIN ci THEN "textDisplay"
         ELSE IF "likeCount" \notin DOMAIN ci THEN "likeCount"
         ELSE IF "authorDisplayName" \notin DOMAIN ci THEN "authorDisplayName"
         ELSE IF "authorChannelUrl" \notin DOMAIN ci THEN "authorChannelUrl"
         ELSE IF "authorChannelId" \notin DOMAIN ci THEN "authorChannelId"
         ELSE IF "value" \notin DOMAIN ci.authorChannelId THEN "value"
         ELSE IF "publishedAt" \notin DOMAIN ci THEN "publishedAt"
         ELSE IF "updatedAt" \notin DOMAIN ci THEN "updatedAt"
         ELSE None

\* A normaliser that takes the two timestamps for each other.
parse_comment_swapped(item) ==
    IF MissingKey(item) # None
    THEN [ok |-> FALSE, exc |-> Exc("KeyError", MissingKey(item))]
    ELSE LET comment_info == item.snippet.topLevelComment.snippet IN
         [ok |-> TRUE,
          value |-> [textDisplay |-> comment_info.textDisplay,
                     likeCount |-> comment_info.likeCount,
                     authorDisplayName |-> comment_info.authorDisplayName,
                     authorChannelUrl |-> comment_info.authorChannelUrl,
                     authorChannelId |-> comment_info.authorChannelId.value,
                     publishedAt |-> comment_info.updatedAt,
                     updatedAt |-> comment_info.publishedAt]]

parse_comment(item) ==
    IF MissingKey(item) # None
    THEN [ok |-> FALSE, exc |-> Exc("KeyError", MissingKey(item))]
    ELSE LET comment_info == item.snippet.topLevelComment.snippet IN
         [ok |-> TRUE,
          value |-> [textDisplay |-> comment_info.textDisplay,
                     likeCount |-> comment_info.likeCount,
                     authorDisplayName |-> comment_info.authorDisplayName,
                     authorChannelUrl |-> comment_info.authorChannelUrl,
                     authorChannelId |-> comment_info.authorChannelId.value,
                     publishedAt |-> comment_info.publishedAt,
                     updatedAt |-> comment_info.updatedAt]]

\* os.path.join(OUTPUT_DIR, f"{video_id}.csv"): an absolute second part
\* replaces the first.
get_csv_filepath(vid) ==
    LET name == vid \o <<".", "c", "s", "v">> IN
    IF Len(name) > 0 /\ name[1] = "/" THEN name ELSE OUTPUT_DIR \o <<"/">> \o name

fieldnames ==
    <<"textDisplay", "likeCount", "authorDisplayName", "authorChannelUrl",
      "authorChannelId", "publishedAt", "updatedAt">>

\* csv: a cell is the text of the value; an integer is written in decimal.
Cell(record, field) ==
    IF field = "likeCount" THEN Str(record[field]) ELSE record[field]

\* DictWriter.writerow: the record's values in the order of fieldnames.
writerow(record) == [i \in 1..Len(fieldnames) |-> Cell(record, fieldnames[i])]

\* The rows the with-block of save_comments_to_csv writes to the opened file.
CsvRows(records) == <<fieldnames>> \o [i \in 1..Len(records) |-> writerow(records[i])]


\* mkdir's parent: the path up to, and excluding, its last "/".
RECURSIVE Dirname(_)
Dirname(path) ==
    IF Len(path) = 0 THEN <<>>
    ELSE IF path[Len(path)] = "/" THEN SubSeq(path, 1, Len(path) - 1)
    ELSE Dirname(SubSeq(path, 1, Len(path) - 1))

\* A file opened with mode="a": the rows are added to what the file held.
WriteFileAppends(files, path, rows) ==
    (path :> ((IF path \in DOMAIN files THEN files[path] ELSE <<>>) \o rows)) @@ files

\* open(path, mode="w") and the writes: the file holds the rows written and
\* nothing of what it held before; the other files are left alone.
WriteFile(files, path, rows) == (path :> rows) @@ files

\* os.makedirs(OUTPUT_DIR, exist_ok=True)
ensure_output_directory(dirs) == dirs \cup {OUTPUT_DIR}

\* response.get(key): the value, or None when the key is missing.
Get(response, key) == IF key \in DOMAIN response THEN response[key] ELSE None

\* A loop that stops on null only ("if next_page_token is None: break").
LoopBreaksOnNoneOnly(token) == token = None

\* Line 103, "if not next_page_token: break".
LoopBreaks(token) == ~Truthy(token)

\* Lines 98-99 on a page whose items all normalise.
AllParse(items) == \A i \in 1..Len(items) : parse_comment(items[i]).ok

ParsedItems(items) == [i \in 1..Len(items) |-> parse_comment(items[i]).value]

\* A loop that keeps only the page fetched last.
AppendPageOverwrites(data, items) == ParsedItems(items)

AppendPage(data, items) == data \o ParsedItems(items)

(* main's except clauses, lines 171-174: the line printed for exception e. *)
Handler(e) ==
    IF IsInstance(e, "ValueError") THEN [prefix |-> "", text |-> e.msg]
    ELSE [prefix |-> "Error: ", text |-> e.msg]

ExtractedLine(data) == [prefix |-> "Extracted ", text |-> Str(Len(data))]

SavedLine(path) == [prefix |-> "Comments saved to ", path |-> path]

-----------------------------------------------------------------------------
(* The environment: the API's items, the URLs typed, the file system found *)

ItemA ==
    [snippet |-> [topLevelComment |-> [snippet |->
        [textDisplay |-> "This is a test comment.",
         likeCount |-> 10,
         authorDisplayName |-> "Test User",
         authorChannelUrl |-> "http://www.youtube.com/channel/UC123456789",
         authorChannelId |-> [value |-> "UC123456789"],
         publishedAt |-> "2023-10-27T12:00:00Z",
         updatedAt |-> "2023-10-28T09:30:00Z"]]]]

\* An item as the API sends it, with the fields the program does not read.
ItemB ==
    [kind |-> "youtube#commentThread", id |-> "Ugx1",
     snippet |-> [videoId |-> "a", canReply |-> TRUE, totalReplyCount |-> 2,
        topLevelComment |-> [kind |-> "youtube#comment", id |-> "Ugx1",
          snippet |->
            [textDisplay |-> "second, with a comma",
             textOriginal |-> "second, with a comma",
             likeCount |-> 0,
             authorDisplayName |-> "Other",
             authorProfileImageUrl |-> "http://img/2",
             authorChannelUrl |-> "http://www.youtube.com/channel/UC2",
             authorChannelId |-> [value |-> "UC2"],
             publishedAt |-> "2024-01-01T00:00:00Z",
             updatedAt |-> "2024-01-02T00:00:00Z"]]]]

\* An item without authorChannelId: parse_comment raises KeyError on it.
ItemBad ==
    [snippet |-> [topLevelComment |-> [snippet |->
        [textDisplay |-> "orphan",
         likeCount |-> 1,
         authorDisplayName |-> "Gone",
         authorChannelUrl |-> "",
         publishedAt |-> "2022-05-05T05:05:05Z",
         updatedAt |-> "2022-05-05T05:05:05Z"]]]]

Items == {ItemA, ItemB, ItemBad}

SeqsUpTo(S, n) == UNION {[1..m -> S] : m \in 0..n}

RECURSIVE Served(_)
Served(resps) ==
    IF resps = <<>> THEN 0 ELSE Len(resps[1].items) + Served(Tail(resps))

Min(a, b) == IF a < b THEN a ELSE b

PageToken(k) == "T" \o Str(k)

\* The responses the API may give to the k-th request of a run: at most
\* maxResults items; a next-page token while the chain goes on, and then no
\* token: the key left out, null, or the empty string.
ApiResponses(k, request) ==
    LET room == Min(request.maxResults, api_total - Served(responses))
        more == api_pages = 0 \/ k < api_pages
    IN  UNION {
          IF more
          THEN {[items |-> items, nextPageToken |-> PageToken(k + 1)]}
          ELSE {[items |-> items],
                [items |-> items, nextPageToken |-> None],
                [items |-> items, nextPageToken |-> ""]}
          : items \in SeqsUpTo(Items, room)}

ApiErrors == {Exc("HttpError", "quotaExceeded")}

RECURSIVE Flatten(_)
Flatten(ss) == IF ss = <<>> THEN <<>> ELSE ss[1] \o Flatten(Tail(ss))

Segments == {VEq, Amp, YoutuBe, <<"a">>, <<"v">>, <<"=">>}

Urls == {Flatten(ss) : ss \in SeqsUpTo(Segments, MaxSegs)}

MainUrls ==
    {<<"?">> \o VEq \o <<"a">> \o Amp \o <<"t">>,
     YoutuBe \o <<"b", "c">>,
     <<"a", "&", "b">>,
     <<"y", "o", "u", "t", "u", ".", "b", "e">>}

NoFiles == [p \in {} |-> <<>>]

StaleRows == <<<<"stale">>, <<"rows">>, <<"of">>, <<"an">>, <<"older">>, <<"run">>>>

InitialFs ==
    {[dirs |-> {}, files |-> NoFiles],
     [dirs |-> {OUTPUT_DIR}, files |-> NoFiles],
     [dirs |-> {OUTPUT_DIR},
      files |-> [p \in {get_csv_filepath(<<"a">>), get_csv_filepath(<<"z">>)} |-> StaleRows]]}

-----------------------------------------------------------------------------
(* Initial states *)

InitRun ==
    /\ pc = "extract"
    /\ video_id = <<>>
    /\ youtube = "unbuilt"
    /\ requests = <<>>
    /\ responses = <<>>
    /\ comments_data = <<>>
    /\ next_page_token = None
    /\ output = <<>>
    /\ failure = "none"
    /\ fs0 = [dirs |-> fs_dirs, files |-> fs_files]

Init ==
    /\ youtube_url \in MainUrls
    /\ \E fs \in InitialFs : fs_dirs = fs.dirs /\ fs_files = fs.files
    /\ api_pages \in 0..MaxPages
    /\ api_total = MaxComments
    /\ InitRun

\* The runs the loop's termination is checked on: one URL with an identifier
\* and one without, no output directory, every length of the token chain.
InitLoop ==
    /\ youtube_url \in {YoutuBe \o <<"b", "c">>, <<"a", "&", "b">>}
    /\ fs_dirs = {} /\ fs_files = NoFiles
    /\ api_pages \in 0..MaxPages
    /\ api_total = MaxComments
    /\ InitRun

\* Every URL made of at most MaxSegs pieces, against a video of one page
\* and at most one comment.
InitUrl ==
    /\ youtube_url \in Urls
    /\ fs_dirs = {} /\ fs_files = NoFiles
    /\ api_pages = 1
    /\ api_total = 1
    /\ InitRun

-----------------------------------------------------------------------------
(* main, lines 163-174 *)

\* Line 164, extract_video_id returns.
MainExtract ==
    /\ pc = "extract"
    /\ extract_video_id(youtube_url).ok
    /\ video_id' = extract_video_id(youtube_url).value
    /\ pc' = "build"
    /\ UNCHANGED <<youtube_url, youtube, requests, responses, comments_data,
                   next_page_token, fs_dirs, fs_files, fs0, output, failure,
                   api_pages, api_total>>

\* Line 164, extract_video_id raises: the handler prints and main returns.
MainExtractRaises ==
    /\ pc = "extract"
    /\ ~extract_video_id(youtube_url).ok
    /\ output' = Append(output, Handler(extract_video_id(youtube_url).exc))
    /\ failure' = "extract"
    /\ pc' = "done"
    /\ UNCHANGED <<youtube_url, video_id, youtube, requests, responses,
                   comments_data, next_page_token, fs_dirs, fs_files, fs0,
                   api_pages, api_total>>

\* Line 165, and the entry of get_all_comments (lines 92-93).
MainBuildClient ==
    /\ pc = "build"
    /\ youtube' = build_youtube_client
    /\ comments_data' = <<>>
    /\ next_page_token' = None
    /\ pc' = "loop"
    /\ UNCHANGED <<youtube_url, video_id, requests, responses, fs_dirs,
                   fs_files, fs0, output, failure, api_pages, api_total>>

\* One iteration of the loop, lines 96-104: the page is fetched, every item
\* is normalised and appended, the token is replaced, and the loop is left
\* when the token is absent.
FetchPage ==
    /\ pc = "loop"
    /\ Len(requests) < MaxPages
    /\ LET request == fetch_comments_page(youtube, video_id, next_page_token) IN
       \E response \in ApiResponses(Len(requests) + 1, request) :
          /\ AllParse(response.items)
          /\ requests' = Append(requests, request)
          /\ responses' = Append(responses, response)
          /\ comments_data' = AppendPage(comments_data, response.items)
          /\ next_page_token' = Get(response, "nextPageToken")
          /\ pc' = IF LoopBreaks(Get(response, "nextPageToken")) THEN "save" ELSE "loop"
    /\ UNCHANGED <<youtube_url, video_id, youtube, fs_dirs, fs_files, fs0,
                   output, failure, api_pages, api_total>>

\* Line 96 raises: the request was issued, no response came; the exception
\* leaves get_all_comments (its records are dropped) and is handled in main.
FetchPageRaises ==
    /\ pc = "loop"
    /\ Len(requests) < MaxPages
    /\ \E e \in ApiErrors :
          /\ requests' = Append(requests, fetch_comments_page(youtube, video_id, next_page_token))
          /\ output' = Append(output, Handler(e))
    /\ comments_data' = <<>>
    /\ failure' = "fetch"
    /\ pc' = "done"
    /\ UNCHANGED <<youtube_url, video_id, youtube, responses, next_page_token,
                   fs_dirs, fs_files, fs0, api_pages, api_total>>

\* A run that writes what it has collected when an item does not normalise.
ParseRaisesAndSaves ==
    /\ pc = "loop"
    /\ Len(requests) < MaxPages
    /\ LET request == fetch_comments_page(youtube, video_id, next_page_token) IN
       \E response \in ApiResponses(Len(requests) + 1, request) :
          /\ ~AllParse(response.items)
          /\ requests' = Append(requests, request)
          /\ responses' = Append(responses, response)
          /\ output' = Append(output, Handler(Exc("KeyError", "authorChannelId")))
    /\ fs_dirs' = ensure_output_directory(fs_dirs)
    /\ fs_files' = WriteFile(fs_files, get_csv_filepath(video_id), CsvRows(comments_data))
    /\ comments_data' = <<>>
    /\ failure' = "parse"
    /\ pc' = "done"
    /\ UNCHANGED <<youtube_url, video_id, youtube, next_page_token, fs0,
                   api_pages, api_total>>

\* Line 99 raises on the first item of the page that does not normalise.
ParseRaises ==
    /\ pc = "loop"
    /\ Len(requests) < MaxPages
    /\ LET request == fetch_comments_page(youtube, video_id, next_page_token) IN
       \E response \in ApiResponses(Len(requests) + 1, request) :
          /\ ~AllParse(response.items)
          /\ requests' = Append(requests, request)
          /\ responses' = Append(responses, response)
          /\ LET bad == CHOOSE i \in 1..Len(response.items) :
                          /\ ~parse_comment(response.items[i]).ok
                          /\ \A j \in 1..(i - 1) : parse_comment(response.items[j]).ok
             IN output' = Append(output, Handler(parse_comment(response.items[bad]).exc))
    /\ comments_data' = <<>>
    /\ failure' = "parse"
    /\ pc' = "done"
    /\ UNCHANGED <<youtube_url, video_id, youtube, next_page_token, fs_dirs,
                   fs_files, fs0, api_pages, api_total>>

\* Lines 168-169, save_comments_to_csv returns: the directory is ensured,
\* the file is opened for writing (truncated) and the rows are written.
SaveComments ==
    /\ pc = "save"
    /\ LET path == get_csv_filepath(video_id) IN
          /\ Dirname(path) \in ensure_output_directory(fs_dirs)
          /\ fs_dirs' = ensure_output_directory(fs_dirs)
          /\ fs_files' = WriteFile(fs_files, path, CsvRows(comments_data))
          /\ output' = output \o <<ExtractedLine(comments_data), SavedLine(path)>>
    /\ pc' = "done"
    /\ UNCHANGED <<youtube_url, video_id, youtube, requests, responses,
                   comments_data, next_page_token, fs0, failure, api_pages,
                   api_total>>

\* What the file system calls of save_comments_to_csv raise: makedirs and
\* open an OSError, open also a ValueError (a NUL in the path), a write an
\* OSError or the UnicodeEncodeError of a text utf-8 cannot encode.
SaveErrors(stage) ==
    CASE stage = "makedirs" -> {Exc("OSError", "Permission denied")}
      [] stage = "open" -> {Exc("OSError", "No such file or directory"),
                            Exc("ValueError", "embedded null byte")}
      [] stage = "write" -> {Exc("OSError", "No space left on device"),
                             Exc("UnicodeEncodeError", "surrogates not allowed")}

\* Lines 168-169, save_comments_to_csv raises: in makedirs (nothing done),
\* in open (the directory made), or in a write (the file holds the rows
\* written before it).
SaveRaises ==
    /\ pc = "save"
    /\ LET path == get_csv_filepath(video_id) IN
       \E stage \in {"makedirs", "open", "write"} : \E e \in SaveErrors(stage) :
          /\ stage = "open" /\ e.msg = "No such file or directory"
                => Dirname(path) \notin ensure_output_directory(fs_dirs)
          /\ stage = "write" => Dirname(path) \in ensure_output_directory(fs_dirs)
          /\ fs_dirs' = IF stage = "makedirs" THEN fs_dirs ELSE ensure_output_directory(fs_dirs)
          /\ \/ stage # "write" /\ fs_files' = fs_files
             \/ /\ stage = "write"
                /\ \E n \in 0..(Len(CsvRows(comments_data)) - 1) :
                      fs_files' = WriteFile(fs_files, path, SubSeq(CsvRows(comments_data), 1, n))
          /\ output' = output \o <<ExtractedLine(comments_data), Handler(e)>>
    /\ failure' = "save"
    /\ pc' = "done"
    /\ UNCHANGED <<youtube_url, video_id, youtube, requests, responses,
                   comments_data, next_page_token, fs0, api_pages, api_total>>

Next ==
    \/ MainExtract
    \/ MainExtractRaises
    \/ MainBuildClient
    \/ FetchPage
    \/ FetchPageRaises
    \/ ParseRaises
    \/ SaveComments
    \/ SaveRaises

Spec == Init /\ [][Next]_vars

\* main is one sequential thread: a step that can be taken is taken.
FairSpec == InitLoop /\ [][Next]_vars /\ WF_vars(Next)

SpecUrl == InitUrl /\ [][Next]_vars


-----------------------------------------------------------------------------
(* Notions the properties are stated in *)

\* The items of all pages received, in page order.
RECURSIVE AllItems(_)
AllItems(resps) ==
    IF resps = <<>> THEN <<>> ELSE resps[1].items \o AllItems(Tail(resps))

\* The response carries a next-page token: the key is there and its value
\* is neither null nor empty.
HasToken(response) ==
    /\ "nextPageToken" \in DOMAIN response
    /\ response.nextPageToken # None
    /\ response.nextPageToken # ""

\* get_all_comments returned its list to main.
Collected == pc = "save" \/ (pc = "done" /\ failure \in {"none", "save"})

\* The index of the first occurrence of sep in s, 0 when there is none.
FirstAt(s, sep) ==
    IF Contains(s, sep)
    THEN CHOOSE i \in 1..Len(s) : MatchAt(s, sep, i) /\ \A j \in 1..(i - 1) : ~MatchAt(s, sep, j)
    ELSE 0

\* What follows the first occurrence of sep in s.
After(s, sep) == SubSeq(s, FirstAt(s, sep) + Len(sep), Len(s))

\* What precedes the first occurrence of sep in s; s when there is none.
Before(s, sep) == IF Contains(s, sep) THEN SubSeq(s, 1, FirstAt(s, sep) - 1) ELSE s

InvalidLinkLine == [prefix |-> "", text |-> "Invalid YouTube link"]

FsUntouched == fs_dirs = fs0.dirs /\ fs_files = fs0.files


-----------------------------------------------------------------------------
(* Properties *)

\* C1: when get_all_comments returns, its list is the records of all items
\* of all pages received, in page order and in item order within a page: the
\* concatenation of parse_comment over the pages' items, as long as the sum
\* of the page item counts; the pages received are the chain up to the first
\* page without a token.
C1_AllPagesCollected ==
    Collected =>
        /\ Len(responses) >= 1
        /\ ~HasToken(responses[Len(responses)])
        /\ \A k \in 1..(Len(responses) - 1) : HasToken(responses[k])
        /\ Len(comments_data) = Served(responses)
        /\ comments_data =
              [i \in 1..Len(AllItems(responses)) |-> parse_comment(AllItems(responses)[i]).value]

C1_Witness ==
    /\ pc = "save"
    /\ Len(responses) >= 2
    /\ Len(responses[1].items) >= 1
    /\ Len(responses[2].items) >= 1
    /\ responses[1].items[1] # responses[2].items[1]

\* C2: a run in which a fetch fails or an item fails to normalise persists
\* nothing, on whatever page it happens: the file system is as the run found
\* it, the records collected are dropped and the run is over; and no step
\* taken before get_all_comments has returned touches the file system.
C2_NothingPersistedOnFailure ==
    /\ failure \in {"fetch", "parse"} =>
          /\ pc = "done"
          /\ FsUntouched
          /\ comments_data = <<>>
          /\ \A i \in 1..Len(output) : output[i].prefix # "Comments saved to "
    /\ pc \in {"extract", "build", "loop"} => FsUntouched

C2_Witness ==
    /\ failure = "parse"
    /\ Len(responses) >= 2
    /\ Len(responses[1].items) >= 1
    /\ fs0.dirs = {}

\* C8: when save_comments_to_csv has returned, the file outputs/<id>.csv
\* holds the header row of the seven field names and then one row per record
\* in order, N + 1 rows for N records, and nothing of what it held before;
\* the output directory exists; every other file is as it was.
C8_FileHoldsHeaderAndRows ==
    (pc = "done" /\ failure = "none") =>
        LET path == OUTPUT_DIR \o <<"/">> \o video_id \o <<".", "c", "s", "v">> IN
        /\ OUTPUT_DIR \in fs_dirs
        /\ path \in DOMAIN fs_files
        /\ Len(fs_files[path]) = Len(comments_data) + 1
        /\ fs_files[path][1] =
              <<"textDisplay", "likeCount", "authorDisplayName", "authorChannelUrl",
                "authorChannelId", "publishedAt", "updatedAt">>
        /\ \A i \in 1..Len(comments_data) :
              fs_files[path][i + 1] =
                 <<comments_data[i].textDisplay, Str(comments_data[i].likeCount),
                   comments_data[i].authorDisplayName, comments_data[i].authorChannelUrl,
                   comments_data[i].authorChannelId, comments_data[i].publishedAt,
                   comments_data[i].updatedAt>>
        /\ \A p \in DOMAIN fs0.files : p # path => p \in DOMAIN fs_files /\ fs_files[p] = fs0.files[p]
        /\ DOMAIN fs_files = DOMAIN fs0.files \cup {path}

C8_Witness ==
    /\ pc = "done"
    /\ failure = "none"
    /\ get_csv_filepath(video_id) \in DOMAIN fs0.files
    /\ Len(comments_data) >= 2
    /\ comments_data[1] # comments_data[2]

\* C9: every record collected has exactly the seven fields, each equal to
\* the field of the same name of the item's top-level-comment snippet, and
\* authorChannelId equal to the value inside the snippet's authorChannelId.
C9_RecordIsProjection ==
    (pc = "loop" \/ Collected) =>
        \A i \in 1..Len(comments_data) :
           LET item == AllItems(responses)[i]
               info == item.snippet.topLevelComment.snippet
               record == comments_data[i]
           IN  /\ item \in Items
               /\ DOMAIN record = CommentInfoFields
               /\ record.textDisplay = info.textDisplay
               /\ record.likeCount = info.likeCount
               /\ record.authorDisplayName = info.authorDisplayName
               /\ record.authorChannelUrl = info.authorChannelUrl
               /\ record.authorChannelId = info.authorChannelId.value
               /\ record.publishedAt = info.publishedAt
               /\ record.updatedAt = info.updatedAt

C9_Witness ==
    /\ pc = "loop"
    /\ Len(comments_data) >= 2
    /\ \E i \in 1..Len(comments_data) : DOMAIN AllItems(responses)[i] # {"snippet"}

\* C10: the requests form a token chain: one request per page received (and
\* one more when the last fetch raised), the first without a page token,
\* each later one with the token of the response before it, all for the same
\* video id and with page size 100; no request follows a response without a
\* token; a page with a token and no items is followed by the next fetch.
C10_TokenChain ==
    /\ Len(requests) = Len(responses) + (IF failure = "fetch" THEN 1 ELSE 0)
    /\ \A k \in 1..Len(requests) :
          /\ requests[k].videoId = video_id
          /\ requests[k].maxResults = 100
          /\ requests[k].client = "client"
          /\ k = 1 => requests[k].pageToken = None
          /\ k > 1 => HasToken(responses[k - 1])
                      /\ requests[k].pageToken = responses[k - 1].nextPageToken
    /\ \A k \in 1..Len(responses) :
          /\ ~HasToken(responses[k]) => Len(requests) = k /\ pc # "loop"
          /\ (HasToken(responses[k]) /\ responses[k].items = <<>>)
                => (pc = "loop" /\ next_page_token = responses[k].nextPageToken) \/ Len(requests) > k

C10_Witness ==
    /\ Len(requests) >= 3
    /\ responses[1].items = <<>>
    /\ Len(responses) >= 2
    /\ requests[2].pageToken # requests[3].pageToken


\* C3: the loop is left, by returning, exactly at the first response without
\* a token, be the token left out, null or the empty string; against an API
\* whose every page carries a token get_all_comments never returns; and
\* against an API whose token chain ends the loop does not go on for ever.
C3_LoopTerminates ==
    /\ [](\A k \in 1..Len(responses) :
             (~HasToken(responses[k]) /\ AllParse(responses[k].items))
                => (k = Len(responses) /\ Collected))
    /\ [](Collected => ~HasToken(responses[Len(responses)]))
    /\ [](api_pages = 0 => ~Collected)
    /\ [](api_pages > 0 => <>(pc # "loop" /\ pc # "build" /\ pc # "extract"))

C3_Witness ==
    /\ pc = "save"
    /\ Len(responses) >= 2
    /\ "nextPageToken" \in DOMAIN responses[Len(responses)]
    /\ responses[Len(responses)].nextPageToken = ""

\* C4: for a URL that contains "v=", the identifier is what follows the
\* first "v=" up to, and excluding, the next "&" or the end of the URL.
C4_IdAfterVEq ==
    (pc # "extract" /\ Contains(youtube_url, VEq)) =>
        /\ failure # "extract"
        /\ video_id = Before(After(youtube_url, VEq), Amp)

\* C5: for a URL that contains "youtu.be/", the identifier is all that
\* follows the first "youtu.be/".
C5_IdAfterYoutuBe ==
    (pc # "extract" /\ Contains(youtube_url, YoutuBe)) =>
        /\ failure # "extract"
        /\ video_id = After(youtube_url, YoutuBe)

\* C6: for a URL with neither "v=" nor "youtu.be/", extraction raises the
\* ValueError "Invalid YouTube link"; the run prints it and ends having
\* built no client, issued no request, and left the file system alone.
C6_InvalidUrlDoesNothing ==
    (~Contains(youtube_url, VEq) /\ ~Contains(youtube_url, YoutuBe)) =>
        /\ pc \in {"extract", "done"}
        /\ youtube = "unbuilt"
        /\ requests = <<>>
        /\ FsUntouched
        /\ pc = "done" => /\ failure = "extract"
                          /\ output = <<InvalidLinkLine>>

C6_Witness ==
    /\ pc = "done"
    /\ failure = "extract"
    /\ Len(youtube_url) >= 3
    /\ fs_dirs = {}

\* C7: a run that failed has ended; a failure of the extraction is printed
\* as its bare message, and every other failure as an "Error: ..." line.
C7_FailuresReported ==
    failure # "none" =>
        /\ pc = "done"
        /\ failure = "extract" => output = <<InvalidLinkLine>>
        /\ failure # "extract" => output[Len(output)].prefix = "Error: "

=============================================================================
